---- MODULE Spec2Model ----
(***************************************************************************)
(* A model of src/src/cpp/mhcpp/core.h: the HyperCube<T> parameter space   *)
(* (a std::map from variable name to a (Name, Min, Max, Value) entry) and   *)
(* the FitnessAssignedScores comparison.                                    *)
(*                                                                          *)
(* HyperCube is modelled at T = double, the instantiation the header itself *)
(* uses (IHyperCube<double>, core.h:370-372): Define takes double, the      *)
(* entry stores double and the getters return T, so no conversion happens.  *)
(* A double is represented by a small integer of Values.                    *)
(***************************************************************************)
EXTENDS Integers, Sequences, FiniteSets, TLC

\* ------------------------------------------------------------------ bounds
\* Largest number a caller passes, and largest number left in uninitialised
\* memory.
MaxVal == 1
\* Largest fitness value.
MaxFit == 2

Values == 0 .. MaxVal
FitValues == 0 .. MaxFit
\* Variable names callers use.
Names == {"x", "y"}
\* Variable names used when two instances are explored together.
CloneNames == {"x"}
\* The objective-score objects a FitnessAssignedScores can point to.
ScoreRefs == {"s1", "s2"}
\* The three FitnessAssignedScores a, b, c that are compared.
Idx == {"a", "b", "c"}

VARIABLES
    def,       \* instance -> its member `def`: a function name -> MMV entry
    op,        \* the member function called last ("": none yet)
    ret,       \* what the last call returned
    thrown,    \* the exception the last call raised ("none": it returned)
    defOrder,  \* history: instance -> the names passed to Define, in the
               \* order of their first Define
    fit,       \* the FitnessAssignedScores a, b, c
    cmp        \* the CompareTo results over pairs of a, b, c (empty: not run)

vars == <<def, op, ret, thrown, defOrder, fit, cmp>>
cubeVars == <<def, op, ret, thrown, defOrder>>
fitVars == <<fit, cmp>>

\* ------------------------------------------------------------ return values
Void == [kind |-> "void", val |-> 0]
RetT(v) == [kind |-> "T", val |-> v]
RetSize(n) == [kind |-> "size", val |-> n]
RetNames(s) == [kind |-> "names", val |-> s]
RetString(s) == [kind |-> "string", val |-> s]

\* ------------------------------------------------------------ HyperCube::MMV
\* MMV(name, min, max, value): every member set from its argument.
MMVSwapped(name, min, max, value) ==
    [Name |-> name, Min |-> max, Max |-> min, Value |-> value]

MMV(name, min, max, value) ==
    [Name |-> name, Min |-> min, Max |-> max, Value |-> value]

\* MMV(){}: Name is the empty string; Min, Max and Value are doubles the
\* constructor never initialises, so each holds whatever the memory held.
DefaultMMV ==
    {[Name |-> "", Min |-> a, Max |-> b, Value |-> c] :
        a \in Values, b \in Values, c \in Values}

\* -------------------------------------------------------------- std::map
EmptyMap == [n \in {} |-> MMV("", 0, 0, 0)]

\* The maps `m[n]` can leave behind: operator[] returns the entry of an
\* existing key and inserts a default-constructed entry for a missing one.
Subscript(m, n) ==
    IF n \in DOMAIN m
    THEN {m}
    ELSE {[k \in DOMAIN m \cup {n} |-> IF k = n THEN d ELSE m[k]] :
            d \in DefaultMMV}

\* `m[n] = e`: the entry of n, inserted when missing, is assigned e.
Assign(m, n, e) ==
    [k \in DOMAIN m \cup {n} |-> IF k = n THEN e ELSE m[k]]

\* `def` is a non-static data member: a write through one instance reaches
\* that instance's map and no other.
StoreShared(d, self, m) == [i \in DOMAIN d |-> m]

Store(d, self, m) == [d EXCEPT ![self] = m]

\* The history of first definitions after Define(name).
Record(order, name) ==
    IF \E i \in 1 .. Len(order) : order[i] = name
    THEN order
    ELSE Append(order, name)

\* ------------------------------------------------------ HyperCube operations
\* Member function f returns r; no member function has a throw.
Returns(f, r) == op' = f /\ ret' = r /\ thrown' = "none"

\* void Define(string name, double min, double max, double value)
Define(self, name, min, max, value) ==
    /\ self \in DOMAIN def
    /\ def' = Store(def, self, Assign(def[self], name, MMV(name, min, max, value)))
    /\ defOrder' = [defOrder EXCEPT ![self] = Record(@, name)]
    /\ Returns("Define", Void)
    /\ UNCHANGED fitVars

\* size_t Dimensions()
Dimensions(self) ==
    /\ self \in DOMAIN def
    /\ Returns("Dimensions", RetSize(Cardinality(DOMAIN def[self])))
    /\ UNCHANGED <<def, defOrder, fitVars>>

\* vector<string> GetVariableNames(): returns the local vector it never fills.
GetVariableNames(self) ==
    /\ self \in DOMAIN def
    /\ Returns("GetVariableNames", RetNames(<<>>))
    /\ UNCHANGED <<def, defOrder, fitVars>>

\* T GetValue(string variableName)
GetValue(self, n) ==
    /\ self \in DOMAIN def
    /\ \E m \in Subscript(def[self], n) :
        /\ def' = Store(def, self, m)
        /\ Returns("GetValue", RetT(m[n].Value))
    /\ UNCHANGED <<defOrder, fitVars>>

\* T GetMaxValue(string variableName)
GetMaxValue(self, n) ==
    /\ self \in DOMAIN def
    /\ \E m \in Subscript(def[self], n) :
        /\ def' = Store(def, self, m)
        /\ Returns("GetMaxValue", RetT(m[n].Max))
    /\ UNCHANGED <<defOrder, fitVars>>

\* T GetMinValue(string variableName)
GetMinValue(self, n) ==
    /\ self \in DOMAIN def
    /\ \E m \in Subscript(def[self], n) :
        /\ def' = Store(def, self, m)
        /\ Returns("GetMinValue", RetT(m[n].Min))
    /\ UNCHANGED <<defOrder, fitVars>>

\* void SetValue(string variableName, T value)
SetValueClamped(self, n, v) ==
    /\ self \in DOMAIN def
    /\ \E m \in Subscript(def[self], n) :
        LET c == IF v < m[n].Min THEN m[n].Min
                 ELSE IF v > m[n].Max THEN m[n].Max ELSE v
        IN  def' = Store(def, self, [m EXCEPT ![n].Value = c])
    /\ Returns("SetValue", Void)
    /\ UNCHANGED <<defOrder, fitVars>>

SetValue(self, n, v) ==
    /\ self \in DOMAIN def
    /\ \E m \in Subscript(def[self], n) :
        def' = Store(def, self, [m EXCEPT ![n].Value = v])
    /\ Returns("SetValue", Void)
    /\ UNCHANGED <<defOrder, fitVars>>

\* void SetMinValue(string variableName, T value)
SetMinValue(self, n, v) ==
    /\ self \in DOMAIN def
    /\ \E m \in Subscript(def[self], n) :
        def' = Store(def, self, [m EXCEPT ![n].Min = v])
    /\ Returns("SetMinValue", Void)
    /\ UNCHANGED <<defOrder, fitVars>>

\* void SetMaxValue(string variableName, T value)
SetMaxValue(self, n, v) ==
    /\ self \in DOMAIN def
    /\ \E m \in Subscript(def[self], n) :
        def' = Store(def, self, [m EXCEPT ![n].Max = v])
    /\ Returns("SetMaxValue", Void)
    /\ UNCHANGED <<defOrder, fitVars>>

\* string GetConfigurationDescription()
GetConfigurationDescription(self) ==
    /\ self \in DOMAIN def
    /\ Returns("GetConfigurationDescription", RetString(""))
    /\ UNCHANGED <<def, defOrder, fitVars>>

\* void ApplyConfiguration(void* system): the body is empty. `system` is the
\* set of variable names the target exposes.
ApplyConfiguration(self, system) ==
    /\ self \in DOMAIN def
    /\ system \in SUBSET Names
    /\ Returns("ApplyConfiguration", Void)
    /\ UNCHANGED <<def, defOrder, fitVars>>

\* HyperCube declares no copy constructor: the implicit one copies the member
\* `def`, and std::map's copy constructor copies every entry.
CopyOf(m) == m

\* HyperCube<T> clone(orig);
Clone ==
    /\ "clone" \notin DOMAIN def
    /\ def' = [i \in {"orig", "clone"} |-> IF i = "orig" THEN def["orig"] ELSE CopyOf(def["orig"])]
    /\ defOrder' = [i \in {"orig", "clone"} |-> defOrder["orig"]]
    /\ Returns("Clone", Void)
    /\ UNCHANGED fitVars

\* ------------------------------------------------- FitnessAssignedScores
\* FitnessAssignedScores(scores, fitnessValue)
FitnessAssignedScores(scores, fitnessValue) ==
    [Scores |-> scores, FitnessValue |-> fitnessValue]

\* T::CompareTo of the fitness type: the IComparable convention the header
\* refers to (negative, zero, positive).
TCompareTo(x, y) == IF x < y THEN -1 ELSE IF x = y THEN 0 ELSE 1

\* int CompareTo(FitnessAssignedScores<T, TSys> other)
CompareToReversed(this, other) ==
    TCompareTo(other.FitnessValue, this.FitnessValue)

CompareTo(this, other) ==
    TCompareTo(this.FitnessValue, other.FitnessValue)

CompareAll ==
    /\ DOMAIN cmp = {}
    /\ cmp' = [p \in Idx \X Idx |-> CompareTo(fit[p[1]], fit[p[2]])]
    /\ UNCHANGED <<cubeVars, fit>>

\* --------------------------------------------------------- specifications
NoCmp == [p \in {} |-> 0]

InitCube ==
    /\ def = [i \in {"orig"} |-> EmptyMap]
    /\ defOrder = [i \in {"orig"} |-> <<>>]
    /\ op = ""
    /\ ret = Void
    /\ thrown = "none"

Init ==
    /\ InitCube
    /\ fit = [i \in Idx |-> FitnessAssignedScores("s1", 0)]
    /\ cmp = NoCmp

\* Any sequence of calls on one HyperCube.
Next ==
    \/ \E n \in Names, mn \in Values, mx \in Values, v \in Values :
        Define("orig", n, mn, mx, v)
    \/ Dimensions("orig")
    \/ GetVariableNames("orig")
    \/ \E n \in Names : GetValue("orig", n)
    \/ \E n \in Names : GetMaxValue("orig", n)
    \/ \E n \in Names : GetMinValue("orig", n)
    \/ \E n \in Names, v \in Values : SetValue("orig", n, v)
    \/ \E n \in Names, v \in Values : SetMinValue("orig", n, v)
    \/ \E n \in Names, v \in Values : SetMaxValue("orig", n, v)
    \/ GetConfigurationDescription("orig")
    \/ \E system \in SUBSET Names : ApplyConfiguration("orig", system)

Spec == Init /\ [][Next]_vars

\* A HyperCube, its copy, and any sequence of mutating calls on either.
NextClone ==
    \/ Clone
    \/ \E self \in {"orig", "clone"}, n \in CloneNames,
          mn \in Values, mx \in Values, v \in Values :
        Define(self, n, mn, mx, v)
    \/ \E self \in {"orig", "clone"}, n \in CloneNames, v \in Values :
        SetValue(self, n, v)
    \/ \E self \in {"orig", "clone"}, n \in CloneNames, v \in Values :
        SetMinValue(self, n, v)
    \/ \E self \in {"orig", "clone"}, n \in CloneNames, v \in Values :
        SetMaxValue(self, n, v)

SpecClone == Init /\ [][NextClone]_vars

\* Three FitnessAssignedScores drawn from the bounded sets, then compared.
InitFitness ==
    /\ InitCube
    /\ fit \in [Idx -> {FitnessAssignedScores(s, f) : s \in ScoreRefs, f \in FitValues}]
    /\ cmp = NoCmp

NextFitness == CompareAll

SpecFitness == InitFitness /\ [][NextFitness]_vars

\* ------------------------------------------------------------- properties
\* The entries of the instance every call of Spec is made on.
This == def["orig"]
Defined(n) == \E i \in 1 .. Len(defOrder["orig"]) : defOrder["orig"][i] = n
\* The step is a call of member function f.
Called(f) == op' = f
\* A call that fails with exception e and leaves the space as it was.
FailsWith(e) == thrown' = e /\ def' = def
\* Every entry other than n's is what it was, and no entry other than n's appears.
OthersKept(n) ==
    /\ DOMAIN def'["orig"] \ {n} = DOMAIN This \ {n}
    /\ \A k \in DOMAIN This \ {n} : def'["orig"][k] = This[k]

\* C1: a Define with min > max, a SetMinValue above the variable's current
\* Max and a SetMaxValue below its current Min each fail with DomainError
\* and leave every entry (hence Dimensions) as it was.
C1_InvertedBoundsFail ==
    [][/\ \A n \in Names, mn \in Values, mx \in Values, v \in Values :
            (mn > mx /\ Called("Define") /\ Define("orig", n, mn, mx, v)) => FailsWith("DomainError")
       /\ \A n \in DOMAIN This, v \in Values :
            (v > This[n].Max /\ Called("SetMinValue") /\ SetMinValue("orig", n, v)) => FailsWith("DomainError")
       /\ \A n \in DOMAIN This, v \in Values :
            (v < This[n].Min /\ Called("SetMaxValue") /\ SetMaxValue("orig", n, v)) => FailsWith("DomainError")
      ]_vars

\* C2: in every reachable state every variable present in the space has
\* Min <= Max.
C2_MinLeMax == \A n \in DOMAIN This : This[n].Min <= This[n].Max

\* C3: GetValue, GetMinValue, GetMaxValue and SetValue on a name that was
\* never defined fail with UnknownVariableError and leave the space as it was.
C3_UnknownVariableFails ==
    [][\A n \in Names :
        (/\ ~Defined(n)
         /\ \/ GetValue("orig", n)
            \/ GetMinValue("orig", n)
            \/ GetMaxValue("orig", n)
            \/ \E v \in Values : SetValue("orig", n, v))
        => FailsWith("UnknownVariableError")
      ]_vars

\* C4: a Define with min <= max returns normally and leaves under its name
\* exactly the min, max and value it was given, replacing the whole entry
\* and altering no other variable's entry; each getter on a defined name
\* returns the stored field and leaves the space as it was. So after any
\* sequence of such Defines the getters return the most recent Define's triple.
C4_DefineRoundTrip ==
    [][/\ \A n \in Names, mn \in Values, mx \in Values, v \in Values :
            (mn <= mx /\ Called("Define") /\ Define("orig", n, mn, mx, v)) =>
                /\ thrown' = "none"
                /\ n \in DOMAIN def'["orig"]
                /\ def'["orig"][n].Name = n
                /\ def'["orig"][n].Min = mn
                /\ def'["orig"][n].Max = mx
                /\ def'["orig"][n].Value = v
                /\ OthersKept(n)
       /\ \A n \in DOMAIN This :
            /\ GetMinValue("orig", n) =>
                ret' = RetT(This[n].Min) /\ thrown' = "none" /\ def' = def
            /\ GetMaxValue("orig", n) =>
                ret' = RetT(This[n].Max) /\ thrown' = "none" /\ def' = def
            /\ GetValue("orig", n) =>
                ret' = RetT(This[n].Value) /\ thrown' = "none" /\ def' = def
      ]_vars

\* C4's case: y was defined, then x was defined as [0, 1] = 0, each entry
\* holds its own triple, and a getter has just returned 1 (x's Max).
C4_Witness ==
    /\ Defined("x") /\ Defined("y")
    /\ This["x"] = [Name |-> "x", Min |-> 0, Max |-> 1, Value |-> 0]
    /\ This["y"] = [Name |-> "y", Min |-> 1, Max |-> 1, Value |-> 1]
    /\ defOrder["orig"] = <<"y", "x">>
    /\ op = "GetMaxValue" /\ ret = RetT(1)

\* C5: whatever Dimensions returns is the number of distinct names that
\* were defined.
C5_DimensionsCountsDefined ==
    op = "Dimensions" => ret = RetSize(Len(defOrder["orig"]))

\* C6: whatever GetVariableNames returns is the defined names, each once,
\* in the order of their first definition.
C6_NamesInDefinitionOrder ==
    op = "GetVariableNames" => ret = RetNames(defOrder["orig"])

C8_SetValueUnchecked ==
    [][\A n \in DOMAIN This :
        /\ \A v \in Values :
            (Called("SetValue") /\ SetValue("orig", n, v)) =>
                /\ thrown' = "none"
                /\ DOMAIN def'["orig"] = DOMAIN This
                /\ def'["orig"][n].Value = v
                /\ def'["orig"][n].Min = This[n].Min
                /\ def'["orig"][n].Max = This[n].Max
                /\ OthersKept(n)
        /\ GetValue("orig", n) => ret' = RetT(This[n].Value) /\ def' = def
      ]_vars

\* C8's case: x holds a value above its Max and y a value below its Min,
\* both with Min <= Max, and GetValue has just returned x's value.
C8_Witness ==
    /\ Defined("x") /\ Defined("y")
    /\ This["x"].Min <= This["x"].Max /\ This["x"].Value > This["x"].Max
    /\ This["y"].Min <= This["y"].Max /\ This["y"].Value < This["y"].Min
    /\ op = "GetValue" /\ ret = RetT(This["x"].Value)

\* A variable whose value lies outside its [Min, Max].
OutOfBounds(n) == This[n].Value < This[n].Min \/ This[n].Value > This[n].Max

\* C9: ApplyConfiguration fails with IncompatibleSystemError, leaving the
\* space as it was, when some variable's value lies outside its [Min, Max]
\* or the target lacks one of the space's variable names.
C9_ApplyChecksBounds ==
    [][\A system \in SUBSET Names :
        (/\ Called("ApplyConfiguration")
         /\ ApplyConfiguration("orig", system)
         /\ \/ \E n \in DOMAIN This : OutOfBounds(n)
            \/ \E n \in DOMAIN This : n \notin system)
        => FailsWith("IncompatibleSystemError")
      ]_vars

Sign(i) == IF i < 0 THEN -1 ELSE IF i = 0 THEN 0 ELSE 1

\* C10: once a, b, c are compared, every result has the sign of the numeric
\* comparison of the two fitness values (so it is zero exactly when they
\* are equal), two objects of equal fitness compare alike against any third
\* whatever scores they carry, and the order is transitive.
C10_FitnessOrdering ==
    DOMAIN cmp # {} =>
        /\ \A i \in Idx, j \in Idx :
            Sign(cmp[<<i, j>>]) = Sign(fit[i].FitnessValue - fit[j].FitnessValue)
        /\ \A i \in Idx, j \in Idx, k \in Idx :
            fit[i].FitnessValue = fit[k].FitnessValue =>
                cmp[<<i, j>>] = cmp[<<k, j>>] /\ cmp[<<j, i>>] = cmp[<<j, k>>]
        /\ \A i \in Idx, j \in Idx, k \in Idx :
            (cmp[<<i, j>>] <= 0 /\ cmp[<<j, k>>] <= 0) => cmp[<<i, k>>] <= 0

\* C10's case: a and b have equal fitness and carry different scores, c has
\* a greater fitness, and the comparisons have run.
C10_Witness ==
    /\ DOMAIN cmp # {}
    /\ fit["a"].FitnessValue = fit["b"].FitnessValue
    /\ fit["a"].Scores # fit["b"].Scores
    /\ fit["b"].FitnessValue < fit["c"].FitnessValue
    /\ cmp[<<"a", "b">>] = 0 /\ cmp[<<"b", "c">>] < 0 /\ cmp[<<"c", "a">>] > 0

====
